---- MODULE Spec2Model ----
(***************************************************************************)
(* Model of src/WhatsApp.js: the connection state kept by the              *)
(* whatsapp-web.js event handlers, the inbound message buffer kept by the  *)
(* 'message' handler, the deferred reconnect, and the HTTP routes that     *)
(* read them.                                                              *)
(*                                                                         *)
(* Node runs every handler to completion; an async handler gives up the    *)
(* thread only at an await.  Each action below is one such run: a whole    *)
(* synchronous handler, or the part of an async handler between two        *)
(* awaits.                                                                 *)
(*                                                                         *)
(* The model describes the process while it serves: line 836 is read as    *)
(* app.listen(PORT, ...), the names lines 15 and 25 define.                *)
(***************************************************************************)
EXTENDS Integers, Sequences, FiniteSets, TLC

VARIABLES
    estadoBot,          \* line 86: let estadoBot
    codigoQR,           \* line 87: let codigoQR
    clienteListo,       \* line 88: let clienteListo
    mensajesEntrantes,  \* line 89: let mensajesEntrantes
    pendientes,         \* 'message' handlers suspended at an await (245-292)
    temporizadores,     \* setTimeout callbacks of line 239 not yet run
    initEnCurso,        \* cliente.initialize() calls of line 241 not yet settled
    respuesta,          \* the last HTTP response sent (res.json / res.status().json)
    recibidos,          \* history: sender of every 'message' event, in delivery order
    anexados,           \* history: every record pushed at line 284, in push order
    limpiadoEn,         \* history: Len(anexados) at the last clearing GET, -1 if none
    eliminados,         \* history: idMensaje of every record a clearing GET removed
    nDesconectado,      \* history: number of 'disconnected' events handled
    nInitReconexion,    \* history: number of initialize() calls made at line 241
    ahora,              \* the clock, in seconds (the unit of a token's iat and exp)
    nTicks,             \* history: number of times the clock was advanced
    limiteMensajes,     \* the store of limitadorMensajes: per client, hits and reset time
    enCurso,            \* route handlers suspended at an await
    llamadas,           \* history: calls to the client made by routes, and their results
    nPeticiones,        \* history: number of requests taken by the routes that await
    envios,             \* history: the requests limitadorMensajes has counted
    emitidos,           \* history: the tokens POST /api/auth has answered with
    peticion,           \* history: the last request a route took
    servidor,           \* the http server of line 836: listening, closing or closed
    oyentesCierre,      \* callbacks of servidor.close (line 794) not yet run
    destroysPendientes, \* cliente.destroy() promises of line 798 not yet settled
    proceso,            \* running, or the exit code process.exit was called with
    nDestroy,           \* history: number of cliente.destroy() calls made
    nSenales            \* history: number of calls of cerrarAplicacion

vars == <<estadoBot, codigoQR, clienteListo, mensajesEntrantes, pendientes,
          temporizadores, initEnCurso, respuesta, recibidos, anexados,
          limpiadoEn, eliminados, nDesconectado, nInitReconexion,
          ahora, nTicks, limiteMensajes, enCurso, llamadas, nPeticiones,
          emitidos, envios, peticion, servidor, oyentesCierre, destroysPendientes, proceso,
          nDestroy, nSenales>>

varsConexion == <<estadoBot, codigoQR, clienteListo, temporizadores, initEnCurso,
                  nDesconectado, nInitReconexion>>

varsMensajes == <<mensajesEntrantes, pendientes, recibidos, anexados,
                  limpiadoEn, eliminados>>

varsPeticion == <<ahora, nTicks, limiteMensajes, enCurso, llamadas, nPeticiones,
                  emitidos, envios>>

varsCierre == <<servidor, oyentesCierre, destroysPendientes, proceso, nDestroy,
                nSenales>>

---------------------------------------------------------------------------
(* Bounds of the model. *)

\* 'message' events delivered in one behaviour.
MaxEventos == 3

\* The cap of the buffer.  The source writes it as the literal 100 at lines
\* 285 and 286 (length > 100, slice(-100)); the model takes both uses from
\* this one definition and is checked with a small cap.
MaxBuffer == 2

\* 'disconnected' events delivered in one behaviour.
MaxDesconexiones == 2

\* Requests taken by the routes that await, in one behaviour.
MaxPeticiones == 3

\* Signals and faults that start cerrarAplicacion, in one behaviour.
MaxSenales == 2

\* Advances of the clock in one behaviour.
MaxTicks == 3

\* The max of limitadorMensajes.  The source writes it as the literal 10 at
\* line 72; the model is checked with a small one.
MaxMensajesPorVentana == 1

---------------------------------------------------------------------------
(* Values. *)

NULL == "null"

DIFUSION == "status@broadcast"

\* mensaje.from of the events delivered: the broadcast sender, an individual
\* and a group.
Remitentes == {DIFUSION, "111@c.us", "222@g.us"}

\* mensaje.author of a group message: the id of the participant who wrote it.
\* A message of an individual chat has none (undefined, modelled as "").
Autores == {"333@c.us"}

\* Lengths of mensaje.body.
Cuerpos == {5}

\* The codes of the 'qr' event and the percentages of 'loading_screen'.
CodigosQR == {"qrA", "qrB"}
Porcentajes == {0, 50}

\* expiresIn: '24h' (line 150), in seconds.
EXPIRA_EN == 86400

\* The secret of this process (line 16) and another one.
JWT_SECRET == "JWT_SECRET"
OTRO_SECRETO == "otro"

\* What a request carries as its token: nothing, a string that is no JWT, or
\* a JWT: its payload, and the secret its signature was made with.
SIN_TOKEN == [tipo |-> "ninguno"]
TOKEN_MALFORMADO == [tipo |-> "malformado"]
Jwt(secreto, usuario, permisos, iat) ==
    [tipo |-> "jwt", firma |-> secreto, usuario |-> usuario,
     permisos |-> permisos, iat |-> iat, exp |-> iat + EXPIRA_EN]

\* Lines 316-319: the payload POST /api/auth signs.
\* DatosToken without the permission to send.
DatosTokenSoloLectura == [usuario |-> "api_user", permisos |-> {"leer_mensajes"}]

\* Lines 316-319: the payload POST /api/auth signs.
DatosToken ==
    [usuario |-> "api_user", permisos |-> {"enviar_mensajes", "leer_mensajes"}]

\* Lines 149-151: jwt.sign at clock t.
generarToken(datos, t) == Jwt(JWT_SECRET, datos.usuario, datos.permisos, t)

\* A JWT with the payload of this program, signed by somebody else at clock t.
TokenAjeno(t) == Jwt(OTRO_SECRETO, DatosToken.usuario, DatosToken.permisos, t)

\* The tokens of the requests that need no clock: none, two jwt.verify
\* rejects, and the one POST /api/auth issues at clock 0.
Tokens == {SIN_TOKEN, TOKEN_MALFORMADO, TokenAjeno(0), generarToken(DatosToken, 0)}

\* The values of estadoBot.  `cargando_${porcentaje}` is <<"cargando", p>>.
INICIALIZANDO == <<"inicializando">>
ESPERANDO_QR == <<"esperando_qr">>
AUTENTICADO == <<"autenticado">>
ERROR_AUTENTICACION == <<"error_autenticacion">>
CONECTADO == <<"conectado">>
DESCONECTADO == <<"desconectado">>
Cargando(p) == <<"cargando", p>>
EsCargando(e) == e[1] = "cargando"

---------------------------------------------------------------------------
(* Helpers of the 'message' handler. *)

\* String.prototype.endsWith on the two suffixes the source tests.
EsIdDeGrupo(de) == de \in {"222@g.us"}

\* body.substring(0, 1000) on a body of length n.
Substring1000(n) == IF n > 1000 THEN 1000 ELSE n

\* Array.prototype.slice(-n).
SliceUltimos(s, n) ==
    IF Len(s) <= n THEN s ELSE SubSeq(s, Len(s) - n + 1, Len(s))

\* Lines 252-262: the record built before the first await.  idMensaje is
\* mensaje.id._serialized, unique per message: the delivery number.
InfoMensaje(de, cuerpo, autor, id) ==
    [de |-> de,
     cuerpo |-> Substring1000(cuerpo),
     esGrupo |-> EsIdDeGrupo(de),
     nombreGrupo |-> "",
     autor |-> autor,
     nombreAutor |-> "",
     numeroAutor |-> "",
     idMensaje |-> id,
     marcaTiempo |-> id]

\* Anexar with slice(0, n) in place of slice(-n): the newest record is the one
\* dropped.
AnexarConservaPrimeros(buf, info) ==
    LET conNuevo == Append(buf, info)
    IN  IF Len(conNuevo) > MaxBuffer THEN SubSeq(conNuevo, 1, MaxBuffer)
        ELSE conNuevo

\* Lines 284-287: push, then keep the last MaxBuffer.
Anexar(buf, info) ==
    LET conNuevo == Append(buf, info)
    IN  IF Len(conNuevo) > MaxBuffer THEN SliceUltimos(conNuevo, MaxBuffer)
        ELSE conNuevo

\* The assignments of lines 284-287 together with the histories.
Empujar(info) ==
    /\ mensajesEntrantes' = Anexar(mensajesEntrantes, info)
    /\ anexados' = Append(anexados, info)

\* What cliente.getContactById resolves to: nothing, or a contact without a
\* saved name.
SIN_CONTACTO == [existe |-> FALSE, name |-> "", pushname |-> "", user |-> ""]
Contactos == {SIN_CONTACTO,
              [existe |-> TRUE, name |-> "", pushname |-> "Ana", user |-> "333"]}

\* a || b || '' on strings.
PrimeroNoVacio(a, b) == IF a # "" THEN a ELSE IF b # "" THEN b ELSE ""

\* Lines 270-274: the author's details copied into the record.
ConContacto(info, contacto) ==
    IF contacto.existe
    THEN [info EXCEPT !.nombreAutor = PrimeroNoVacio(contacto.name, contacto.pushname),
                      !.numeroAutor = contacto.user]
    ELSE info

---------------------------------------------------------------------------
(* cliente.on('message'), lines 245-292. *)

\* The event arrives.  Lines 246-248 drop the broadcast sender; an individual
\* message has no await on its path and is pushed in the same run; a group
\* message suspends at `await mensaje.getChat()` (line 266).
OnMessage(de, cuerpo, autor) ==
    /\ Len(recibidos) < MaxEventos
    /\ recibidos' = Append(recibidos, de)
    /\ LET info == InfoMensaje(de, cuerpo, autor, Len(recibidos) + 1)
       IN  IF de = DIFUSION
           THEN UNCHANGED <<mensajesEntrantes, anexados, pendientes>>
           ELSE IF info.esGrupo
                THEN /\ pendientes' = pendientes \cup {[info |-> info, pc |-> "getChat"]}
                     /\ UNCHANGED <<mensajesEntrantes, anexados>>
                ELSE /\ Empujar(info)
                     /\ UNCHANGED pendientes
    /\ UNCHANGED <<limpiadoEn, eliminados, respuesta, peticion>>
    /\ UNCHANGED varsConexion
    /\ UNCHANGED <<varsPeticion, varsCierre>>

\* getChat() resolves: line 267, then either the second await (line 270) or,
\* with no author, on to the push.
GetChatResuelve(p, nombre) ==
    /\ p \in pendientes
    /\ p.pc = "getChat"
    /\ LET info == [p.info EXCEPT !.nombreGrupo = nombre]
       IN  IF info.autor # ""
           THEN /\ pendientes' = (pendientes \ {p}) \cup
                                   {[info |-> info, pc |-> "getContactById"]}
                /\ UNCHANGED <<mensajesEntrantes, anexados>>
           ELSE /\ pendientes' = pendientes \ {p}
                /\ Empujar(info)
    /\ UNCHANGED <<recibidos, limpiadoEn, eliminados, respuesta, peticion>>
    /\ UNCHANGED varsConexion
    /\ UNCHANGED <<varsPeticion, varsCierre>>

\* getContactById() resolves: lines 271-274, then the push.
GetContactByIdResuelve(p, contacto) ==
    /\ p \in pendientes
    /\ p.pc = "getContactById"
    /\ pendientes' = pendientes \ {p}
    /\ Empujar(ConContacto(p.info, contacto))
    /\ UNCHANGED <<recibidos, limpiadoEn, eliminados, respuesta, peticion>>
    /\ UNCHANGED varsConexion
    /\ UNCHANGED <<varsPeticion, varsCierre>>

\* LookupFalla without the inner try/catch of lines 265-278: the rejection
\* reaches the catch of line 289 and the record is lost.
LookupFallaSinRegistro(p) ==
    /\ p \in pendientes
    /\ pendientes' = pendientes \ {p}
    /\ UNCHANGED <<mensajesEntrantes, anexados>>
    /\ UNCHANGED <<recibidos, limpiadoEn, eliminados, respuesta, peticion>>
    /\ UNCHANGED varsConexion
    /\ UNCHANGED <<varsPeticion, varsCierre>>

\* Either lookup rejects: the catch of lines 276-278, then the push with what
\* the record holds so far.
LookupFalla(p) ==
    /\ p \in pendientes
    /\ pendientes' = pendientes \ {p}
    /\ Empujar(p.info)
    /\ UNCHANGED <<recibidos, limpiadoEn, eliminados, respuesta, peticion>>
    /\ UNCHANGED varsConexion
    /\ UNCHANGED <<varsPeticion, varsCierre>>

---------------------------------------------------------------------------
(* Middleware. *)

\* JwtVerifica without the check of exp.
JwtVerificaSinExpiracion(token) ==
    /\ token.tipo = "jwt"
    /\ token.firma = JWT_SECRET

\* jwt.verify (line 155) throws unless the token is a JWT signed with
\* JWT_SECRET whose exp the clock has not reached.
JwtVerifica(token) ==
    /\ token.tipo = "jwt"
    /\ token.firma = JWT_SECRET
    /\ ahora < token.exp

\* Lines 153-159: the decoded payload, or null.
verificarToken(token) ==
    IF JwtVerifica(token)
    THEN [nulo |-> FALSE, usuario |-> token.usuario, permisos |-> token.permisos]
    ELSE [nulo |-> TRUE, usuario |-> "", permisos |-> {}]

\* Lines 59-68 and 79: the answer of limitadorGeneral when it refuses.
RespuestaLimite ==
    [status |-> 429,
     cuerpo |-> [error |-> "Demasiadas solicitudes, intenta de nuevo mas tarde"]]

\* AutenticacionPasa without the call of verificarToken (lines 174-180).
AutenticacionPasaSinVerificar(token) == token # SIN_TOKEN

\* Lines 162-184: TRUE when the middleware calls next().
AutenticacionPasa(token) == token # SIN_TOKEN /\ ~verificarToken(token).nulo

\* Lines 166-180: what the middleware answers when it does not call next().
RespuestaNoAutenticado(token) ==
    IF token = SIN_TOKEN
    THEN [status |-> 401,
          cuerpo |-> [exito |-> FALSE, error |-> "Token de autenticacion requerido"]]
    ELSE [status |-> 401,
          cuerpo |-> [exito |-> FALSE, error |-> "Token invalido o expirado"]]

\* The routes.
ENVIAR == "enviar-mensaje"
GRUPOS == "grupos"
CONTACTOS == "contactos"
MENSAJES == "mensajes-recibidos"
VERIFICAR == "verificar-numero"
AUTH == "auth"
ESTADO == "estado"

\* ConexionPasa reading the flag alone.
ConexionPasaSoloListo == clienteListo

\* Line 188: TRUE when requiereConexion calls next().
ConexionPasa == clienteListo /\ estadoBot = CONECTADO

\* RutasConConexion with requiereConexion on the route of line 490 too.
RutasConConexionYMensajes == {ENVIAR, GRUPOS, CONTACTOS, VERIFICAR, MENSAJES}

\* Lines 352, 440, 464 and 517: the routes with requiereConexion in their
\* chain.  The routes of lines 297, 338 and 490 have none.
RutasConConexion == {ENVIAR, GRUPOS, CONTACTOS, VERIFICAR}

\* TRUE when the chain of a route gets past requiereConexion, or has none.
PuertaPasa(ruta) == ruta \in RutasConConexion => ConexionPasa

\* Lines 189-196: what requiereConexion answers when it does not.
RespuestaNoConectado ==
    [status |-> 503,
     cuerpo |-> [exito |-> FALSE, error |-> "WhatsApp no esta conectado",
                 estado |-> estadoBot]]

\* windowMs of limitadorMensajes (line 71), in seconds.
VENTANA_MENSAJES == 60

\* Contar with a window that never runs out.
ContarSinReinicio(v, t) ==
    IF v.hits = 0
    THEN [hits |-> 1, reset |-> t + VENTANA_MENSAJES]
    ELSE [hits |-> v.hits + 1, reset |-> v.reset]

\* express-rate-limit, one hit of a client at clock t: a window that has run
\* out (or never began) begins again with this hit.
Contar(v, t) ==
    IF v.hits = 0 \/ t >= v.reset
    THEN [hits |-> 1, reset |-> t + VENTANA_MENSAJES]
    ELSE [hits |-> v.hits + 1, reset |-> v.reset]

\* express-rate-limit: the hit that takes a client past max is refused.
LimiteExcedido(v) == v.hits > MaxMensajesPorVentana

\* Lines 73-76: the answer of limitadorMensajes when it refuses.
RespuestaLimiteMensajes ==
    [status |-> 429,
     cuerpo |-> [error |-> "Limite de mensajes excedido, espera un minuto",
                 retryAfter |-> 1]]

---------------------------------------------------------------------------
(* GET /api/mensajes-recibidos, lines 490-512. *)

\* Lines 501-504: the body of the answer without limpiar=true.
LeerMensajes == [exito |-> TRUE, mensajes |-> mensajesEntrantes]

\* Lines 493-499: the body of the answer with limpiar=true.
LimpiarMensajes(copiaMensajes) ==
    [exito |-> TRUE, mensajesLimpiados |-> TRUE,
     mensajesEliminados |-> Len(copiaMensajes)]

\* BufferLimpio without the assignment of line 494.
BufferSinLimpiar == mensajesEntrantes

\* Line 494: what the buffer is after the clearing branch.
BufferLimpio == <<>>

IdsDe(s) == {s[i].idMensaje : i \in 1..Len(s)}

GetMensajesRecibidos(admitido, token, limpiar) ==
    /\ IF ~admitido
       THEN /\ respuesta' = RespuestaLimite
            /\ UNCHANGED <<mensajesEntrantes, limpiadoEn, eliminados>>
       ELSE IF ~AutenticacionPasa(token)
       THEN /\ respuesta' = RespuestaNoAutenticado(token)
            /\ UNCHANGED <<mensajesEntrantes, limpiadoEn, eliminados>>
       ELSE IF ~PuertaPasa(MENSAJES)
       THEN /\ respuesta' = RespuestaNoConectado
            /\ UNCHANGED <<mensajesEntrantes, limpiadoEn, eliminados>>
       ELSE IF limpiar
       THEN /\ respuesta' = [status |-> 200,
                             cuerpo |-> LimpiarMensajes(mensajesEntrantes)]
            /\ mensajesEntrantes' = BufferLimpio
            /\ limpiadoEn' = Len(anexados)
            /\ eliminados' = eliminados \cup IdsDe(mensajesEntrantes)
       ELSE /\ respuesta' = [status |-> 200, cuerpo |-> LeerMensajes]
            /\ UNCHANGED <<mensajesEntrantes, limpiadoEn, eliminados>>
    /\ peticion' = [turno |-> 1 - peticion.turno, ruta |-> MENSAJES,
                    admitido |-> admitido, token |-> token, limpiar |-> limpiar]
    /\ UNCHANGED <<pendientes, recibidos, anexados>>
    /\ UNCHANGED varsConexion
    /\ UNCHANGED <<varsPeticion, varsCierre>>

---------------------------------------------------------------------------
(* The connection events, lines 202-243. *)

\* Lines 202-207.
OnQr(qr) ==
    /\ codigoQR' = qr
    /\ estadoBot' = ESPERANDO_QR
    /\ UNCHANGED <<clienteListo, temporizadores, initEnCurso, nDesconectado,
                   nInitReconexion, respuesta, peticion>>
    /\ UNCHANGED varsMensajes
    /\ UNCHANGED <<varsPeticion, varsCierre>>

\* Lines 209-212.
OnLoadingScreen(porcentaje) ==
    /\ estadoBot' = Cargando(porcentaje)
    /\ UNCHANGED <<codigoQR, clienteListo, temporizadores, initEnCurso,
                   nDesconectado, nInitReconexion, respuesta, peticion>>
    /\ UNCHANGED varsMensajes
    /\ UNCHANGED <<varsPeticion, varsCierre>>

\* Lines 214-217.
OnAuthenticated ==
    /\ estadoBot' = AUTENTICADO
    /\ UNCHANGED <<codigoQR, clienteListo, temporizadores, initEnCurso,
                   nDesconectado, nInitReconexion, respuesta, peticion>>
    /\ UNCHANGED varsMensajes
    /\ UNCHANGED <<varsPeticion, varsCierre>>

\* Lines 219-223.
OnAuthFailure ==
    /\ estadoBot' = ERROR_AUTENTICACION
    /\ codigoQR' = NULL
    /\ UNCHANGED <<clienteListo, temporizadores, initEnCurso, nDesconectado,
                   nInitReconexion, respuesta, peticion>>
    /\ UNCHANGED varsMensajes
    /\ UNCHANGED <<varsPeticion, varsCierre>>

\* Lines 225-230.
OnReady ==
    /\ clienteListo' = TRUE
    /\ estadoBot' = CONECTADO
    /\ codigoQR' = NULL
    /\ UNCHANGED <<temporizadores, initEnCurso, nDesconectado, nInitReconexion,
                   respuesta, peticion>>
    /\ UNCHANGED varsMensajes
    /\ UNCHANGED <<varsPeticion, varsCierre>>

\* ProgramarReconexion arming the timer twice.
ProgramarDosReconexiones(t) == t + 2

\* Line 239: the setTimeout calls one run of the 'disconnected' handler makes,
\* added to the t callbacks already waiting.
ProgramarReconexion(t) == t + 1

\* Lines 232-243.
OnDisconnected ==
    /\ nDesconectado < MaxDesconexiones
    /\ clienteListo' = FALSE
    /\ estadoBot' = DESCONECTADO
    /\ codigoQR' = NULL
    /\ temporizadores' = ProgramarReconexion(temporizadores)
    /\ nDesconectado' = nDesconectado + 1
    /\ UNCHANGED <<initEnCurso, nInitReconexion, respuesta, peticion>>
    /\ UNCHANGED varsMensajes
    /\ UNCHANGED <<varsPeticion, varsCierre>>

\* Lines 239-242: estadoBot as the timeout callback leaves it.  The callback
\* assigns nothing.
EstadoAlReconectar(e) == e

\* Lines 239-242: one waiting callback runs, 30 s after its 'disconnected'.
\* It calls cliente.initialize() and returns; setTimeout does not repeat.
ReconectarTimeout ==
    /\ temporizadores > 0
    /\ temporizadores' = temporizadores - 1
    /\ initEnCurso' = initEnCurso + 1
    /\ nInitReconexion' = nInitReconexion + 1
    /\ estadoBot' = EstadoAlReconectar(estadoBot)
    /\ UNCHANGED <<codigoQR, clienteListo, nDesconectado, respuesta, peticion>>
    /\ UNCHANGED varsMensajes
    /\ UNCHANGED <<varsPeticion, varsCierre>>

\* The promise of an initialize() call of line 241 settles.  Nothing awaits it.
InitializeTermina ==
    /\ initEnCurso > 0
    /\ initEnCurso' = initEnCurso - 1
    /\ UNCHANGED <<estadoBot, codigoQR, clienteListo, temporizadores,
                   nDesconectado, nInitReconexion, respuesta, peticion>>
    /\ UNCHANGED varsMensajes
    /\ UNCHANGED <<varsPeticion, varsCierre>>

---------------------------------------------------------------------------
(* GET /api/estado, lines 338-346. *)

\* Estado with the stored code reported whatever the state is.
EstadoConCodigoGuardado ==
    [estado |-> estadoBot, codigoQR |-> codigoQR, listo |-> clienteListo]

\* Lines 339-343: the body of the answer.
Estado ==
    [estado |-> estadoBot,
     codigoQR |-> IF estadoBot = ESPERANDO_QR THEN codigoQR ELSE NULL,
     listo |-> clienteListo]

GetEstado(admitido) ==
    /\ respuesta' = IF ~admitido THEN RespuestaLimite
                    ELSE IF ~PuertaPasa(ESTADO) THEN RespuestaNoConectado
                    ELSE [status |-> 200, cuerpo |-> Estado]
    /\ peticion' = [turno |-> 1 - peticion.turno, ruta |-> ESTADO,
                    admitido |-> admitido]
    /\ UNCHANGED varsConexion
    /\ UNCHANGED varsMensajes
    /\ UNCHANGED <<varsPeticion, varsCierre>>

---------------------------------------------------------------------------
(* POST /api/enviar-mensaje, lines 349-437. *)

\* A destino or a numero is the sequence of its characters.
SUFIJO_GRUPO == <<"@", "g", ".", "u", "s">>
SUFIJO_CONTACTO == <<"@", "c", ".", "u", "s">>

\* The characters the pattern of line 145 admits, and the ones \s matches.
CaracteresDeTelefono ==
    {"0", "1", "2", "3", "4", "5", "6", "7", "8", "9", " ", "-", "+", "(", ")"}
Espacios == {" "}

\* Line 146: numero.replace(/\s/g, '').
SinEspacios(numero) == SelectSeq(numero, LAMBDA c : c \notin Espacios)

\* Lines 144-147.
validarNumeroTelefono(numero) ==
    LET n == SinEspacios(numero)
    IN  /\ Len(n) >= 7
        /\ Len(n) <= 20
        /\ \A i \in 1..Len(n) : n[i] \in CaracteresDeTelefono

\* String.prototype.endsWith.
EndsWith(texto, sufijo) ==
    /\ Len(texto) >= Len(sufijo)
    /\ SubSeq(texto, Len(texto) - Len(sufijo) + 1, Len(texto)) = sufijo

\* Lines 377-382.
ChatIdDe(destino, esGrupo) ==
    IF esGrupo
    THEN IF EndsWith(destino, SUFIJO_GRUPO) THEN destino ELSE destino \o SUFIJO_GRUPO
    ELSE IF EndsWith(destino, SUFIJO_CONTACTO) THEN destino
         ELSE destino \o SUFIJO_CONTACTO

\* Lines 354-355: the validators of destino and mensaje.  A mensaje is known by
\* its length.
EntradaValida(destino, mensaje) ==
    /\ Len(destino) >= 7
    /\ Len(destino) <= 20
    /\ mensaje >= 1
    /\ mensaje <= 4000

\* Lines 361-363 and 522-524.
RespuestaErrores == [status |-> 400, cuerpo |-> [exito |-> FALSE, errores |-> TRUE]]

\* Line 20.
MAX_FILE_SIZE == 10

\* A rutaArchivo with what the file system holds at it; the empty path is the
\* request without rutaArchivo.
SIN_ARCHIVO == [ruta |-> "", existe |-> FALSE, size |-> 0]
ARCHIVO_AUSENTE == [ruta |-> "ausente.pdf", existe |-> FALSE, size |-> 0]
ARCHIVO_GRANDE ==
    [ruta |-> "grande.pdf", existe |-> TRUE, size |-> MAX_FILE_SIZE * 1024 * 1024 + 1]
ARCHIVO_JUSTO ==
    [ruta |-> "justo.pdf", existe |-> TRUE, size |-> MAX_FILE_SIZE * 1024 * 1024]
Archivos == {SIN_ARCHIVO, ARCHIVO_AUSENTE, ARCHIVO_GRANDE, ARCHIVO_JUSTO}

\* A request suspended at an await, with the locals its continuation reads.
EnVuelo(id, ruta, pc, chatId, esGrupo, archivo, mensaje) ==
    [id |-> id, ruta |-> ruta, pc |-> pc, chatId |-> chatId, esGrupo |-> esGrupo,
     archivo |-> archivo, mensaje |-> mensaje]

\* One entry of llamadas: a call a request makes outside the process (fase
\* "llamada") or its answer (fase "retorno").
Llamada(r, op, fase, valor) ==
    [id |-> r.id, ruta |-> r.ruta, op |-> op, fase |-> fase, chatId |-> r.chatId,
     esGrupo |-> r.esGrupo, valor |-> valor]

\* A boolean as the log writes it.
Texto(b) == IF b THEN "true" ELSE "false"

Responder(id, r) == respuesta' = [status |-> r.status, cuerpo |-> r.cuerpo, id |-> id]

\* Lines 395-419 up to the await of sendMessage: the file checks, in the log
\* after the entries in registro, and then either an answer or the call.
EnviarDesdeArchivo(r, registro) ==
    IF r.archivo.ruta = ""
    THEN /\ llamadas' = registro \o <<Llamada(r, "sendMessage", "llamada", "texto")>>
         /\ enCurso' = (enCurso \ {r}) \cup {[r EXCEPT !.pc = "sendMessage"]}
         /\ UNCHANGED respuesta
    ELSE IF ~r.archivo.existe
    THEN /\ llamadas' = registro \o <<Llamada(r, "existsSync", "retorno", "false")>>
         /\ enCurso' = enCurso \ {r}
         /\ Responder(r.id, [status |-> 400,
                cuerpo |-> [exito |-> FALSE, error |-> "El archivo no existe"]])
    ELSE IF r.archivo.size > MAX_FILE_SIZE * 1024 * 1024
    THEN /\ llamadas' = registro \o <<Llamada(r, "existsSync", "retorno", "true"),
                                       Llamada(r, "statSync", "retorno", "grande")>>
         /\ enCurso' = enCurso \ {r}
         /\ Responder(r.id, [status |-> 400,
                cuerpo |-> [exito |-> FALSE,
                            error |-> "El archivo es demasiado grande"]])
    ELSE /\ llamadas' = registro \o <<Llamada(r, "existsSync", "retorno", "true"),
                                       Llamada(r, "statSync", "retorno", "cabe"),
                                       Llamada(r, "sendMessage", "llamada", "media")>>
         /\ enCurso' = (enCurso \ {r}) \cup {[r EXCEPT !.pc = "sendMessage"]}
         /\ UNCHANGED respuesta

\* PostEnviarMensaje with requiereAutenticacion ahead of limitadorMensajes in
\* the chain.
PostEnviarMensajeAutenticaPrimero(ip, admitido, token, destino, mensaje, archivo, esGrupo) ==
    LET id == nPeticiones + 1
        v == Contar(limiteMensajes[ip], ahora)
        r == EnVuelo(id, ENVIAR, "isRegisteredUser", ChatIdDe(destino, esGrupo),
                     esGrupo, archivo, mensaje)
    IN  /\ nPeticiones < MaxPeticiones
        /\ nPeticiones' = id
        /\ peticion' = [turno |-> 1 - peticion.turno, id |-> id, ruta |-> ENVIAR,
                        ip |-> ip, admitido |-> admitido, token |-> token,
                        destino |-> destino, mensaje |-> mensaje,
                        archivo |-> archivo, esGrupo |-> esGrupo]
        /\ limiteMensajes' = IF admitido /\ AutenticacionPasa(token) THEN [limiteMensajes EXCEPT ![ip] = v]
                             ELSE limiteMensajes
        /\ envios' = IF admitido /\ AutenticacionPasa(token)
                     THEN Append(envios, [ip |-> ip, t |-> ahora,
                                          pasa |-> ~LimiteExcedido(v)])
                     ELSE envios
        /\ IF ~admitido
           THEN Responder(id, RespuestaLimite) /\ UNCHANGED <<enCurso, llamadas>>
           ELSE IF ~AutenticacionPasa(token)
           THEN Responder(id, RespuestaNoAutenticado(token))
                /\ UNCHANGED <<enCurso, llamadas>>
           ELSE IF LimiteExcedido(v)
           THEN Responder(id, RespuestaLimiteMensajes)
                /\ UNCHANGED <<enCurso, llamadas>>
           ELSE IF ~PuertaPasa(peticion'.ruta)
           THEN Responder(id, RespuestaNoConectado) /\ UNCHANGED <<enCurso, llamadas>>
           ELSE IF ~EntradaValida(destino, mensaje)
           THEN Responder(id, RespuestaErrores) /\ UNCHANGED <<enCurso, llamadas>>
           ELSE IF ~esGrupo /\ ~validarNumeroTelefono(destino)
           THEN Responder(id, [status |-> 400,
                    cuerpo |-> [exito |-> FALSE,
                                error |-> "Formato de numero de telefono invalido"]])
                /\ UNCHANGED <<enCurso, llamadas>>
           ELSE IF ~esGrupo
           THEN /\ enCurso' = enCurso \cup {r}
                /\ llamadas' = Append(llamadas,
                                      Llamada(r, "isRegisteredUser", "llamada", ""))
                /\ UNCHANGED respuesta
           ELSE EnviarDesdeArchivo(r, llamadas)
        /\ UNCHANGED <<ahora, nTicks, emitidos>>
        /\ UNCHANGED <<varsConexion, varsMensajes, varsCierre>>

\* The middleware of lines 350-352 and the handler up to its first await.
PostEnviarMensaje(ip, admitido, token, destino, mensaje, archivo, esGrupo) ==
    LET id == nPeticiones + 1
        v == Contar(limiteMensajes[ip], ahora)
        r == EnVuelo(id, ENVIAR, "isRegisteredUser", ChatIdDe(destino, esGrupo),
                     esGrupo, archivo, mensaje)
    IN  /\ nPeticiones < MaxPeticiones
        /\ nPeticiones' = id
        /\ peticion' = [turno |-> 1 - peticion.turno, id |-> id, ruta |-> ENVIAR,
                        ip |-> ip, admitido |-> admitido, token |-> token,
                        destino |-> destino, mensaje |-> mensaje,
                        archivo |-> archivo, esGrupo |-> esGrupo]
        /\ limiteMensajes' = IF admitido THEN [limiteMensajes EXCEPT ![ip] = v]
                             ELSE limiteMensajes
        /\ envios' = IF admitido
                     THEN Append(envios, [ip |-> ip, t |-> ahora,
                                          pasa |-> ~LimiteExcedido(v)])
                     ELSE envios
        /\ IF ~admitido
           THEN Responder(id, RespuestaLimite) /\ UNCHANGED <<enCurso, llamadas>>
           ELSE IF LimiteExcedido(v)
           THEN Responder(id, RespuestaLimiteMensajes)
                /\ UNCHANGED <<enCurso, llamadas>>
           ELSE IF ~AutenticacionPasa(token)
           THEN Responder(id, RespuestaNoAutenticado(token))
                /\ UNCHANGED <<enCurso, llamadas>>
           ELSE IF ~PuertaPasa(peticion'.ruta)
           THEN Responder(id, RespuestaNoConectado) /\ UNCHANGED <<enCurso, llamadas>>
           ELSE IF ~EntradaValida(destino, mensaje)
           THEN Responder(id, RespuestaErrores) /\ UNCHANGED <<enCurso, llamadas>>
           ELSE IF ~esGrupo /\ ~validarNumeroTelefono(destino)
           THEN Responder(id, [status |-> 400,
                    cuerpo |-> [exito |-> FALSE,
                                error |-> "Formato de numero de telefono invalido"]])
                /\ UNCHANGED <<enCurso, llamadas>>
           ELSE IF ~esGrupo
           THEN /\ enCurso' = enCurso \cup {r}
                /\ llamadas' = Append(llamadas,
                                      Llamada(r, "isRegisteredUser", "llamada", ""))
                /\ UNCHANGED respuesta
           ELSE EnviarDesdeArchivo(r, llamadas)
        /\ UNCHANGED <<ahora, nTicks, emitidos>>
        /\ UNCHANGED <<varsConexion, varsMensajes, varsCierre>>

\* EnviarTrasRegistro without the test of line 387.
EnviarSinMirarRegistro(r, estaRegistrado) ==
    /\ r \in enCurso
    /\ r.ruta = ENVIAR
    /\ r.pc = "isRegisteredUser"
    /\ EnviarDesdeArchivo(r, Append(llamadas,
           Llamada(r, "isRegisteredUser", "retorno", Texto(estaRegistrado))))
    /\ UNCHANGED <<ahora, nTicks, emitidos, limiteMensajes, envios, nPeticiones,
                   peticion>>
    /\ UNCHANGED <<varsConexion, varsMensajes, varsCierre>>

\* Lines 386-393: isRegisteredUser resolved; the handler runs on to the next
\* await or to its answer.
EnviarTrasRegistro(r, estaRegistrado) ==
    /\ r \in enCurso
    /\ r.ruta = ENVIAR
    /\ r.pc = "isRegisteredUser"
    /\ LET registro == Append(llamadas,
                           Llamada(r, "isRegisteredUser", "retorno", Texto(estaRegistrado)))
       IN  IF ~estaRegistrado
           THEN /\ llamadas' = registro
                /\ enCurso' = enCurso \ {r}
                /\ Responder(r.id, [status |-> 400,
                       cuerpo |-> [exito |-> FALSE,
                                   error |-> "El numero no esta registrado en WhatsApp"]])
           ELSE EnviarDesdeArchivo(r, registro)
    /\ UNCHANGED <<ahora, nTicks, emitidos, limiteMensajes, envios, nPeticiones, peticion>>
    /\ UNCHANGED <<varsConexion, varsMensajes, varsCierre>>

\* Lines 416-427: sendMessage resolved.
EnviarTerminado(r) ==
    /\ r \in enCurso
    /\ r.ruta = ENVIAR
    /\ r.pc = "sendMessage"
    /\ llamadas' = Append(llamadas, Llamada(r, "sendMessage", "retorno", "true"))
    /\ enCurso' = enCurso \ {r}
    /\ Responder(r.id, [status |-> 200,
           cuerpo |-> [exito |-> TRUE, idMensaje |-> r.id]])
    /\ UNCHANGED <<ahora, nTicks, emitidos, limiteMensajes, envios, nPeticiones, peticion>>
    /\ UNCHANGED <<varsConexion, varsMensajes, varsCierre>>

\* Lines 429-435: the await the handler is suspended at rejected.
EnviarFalla(r) ==
    /\ r \in enCurso
    /\ r.ruta = ENVIAR
    /\ llamadas' = Append(llamadas, Llamada(r, r.pc, "retorno", "error"))
    /\ enCurso' = enCurso \ {r}
    /\ Responder(r.id, [status |-> 500,
           cuerpo |-> [exito |-> FALSE, error |-> "Error al enviar mensaje"]])
    /\ UNCHANGED <<ahora, nTicks, emitidos, limiteMensajes, envios, nPeticiones, peticion>>
    /\ UNCHANGED <<varsConexion, varsMensajes, varsCierre>>

---------------------------------------------------------------------------
(* GET /api/grupos, /api/contactos and /api/verificar-numero, lines 440-551. *)

\* Line 518: the validator of numero.
NumeroValido(numero) == Len(numero) >= 7 /\ Len(numero) <= 20

\* Lines 440, 464 and 515-517: the middleware, and the handler up to its await
\* of getChats (442) or getContacts (466).
GetLista(ruta, op, admitido, token) ==
    LET id == nPeticiones + 1
        r == EnVuelo(id, ruta, op, <<>>, FALSE, SIN_ARCHIVO, 0)
    IN  /\ nPeticiones < MaxPeticiones
        /\ nPeticiones' = id
        /\ peticion' = [turno |-> 1 - peticion.turno, id |-> id, ruta |-> ruta,
                        admitido |-> admitido, token |-> token]
        /\ IF ~admitido
           THEN Responder(id, RespuestaLimite) /\ UNCHANGED <<enCurso, llamadas>>
           ELSE IF ~AutenticacionPasa(token)
           THEN Responder(id, RespuestaNoAutenticado(token))
                /\ UNCHANGED <<enCurso, llamadas>>
           ELSE IF ~PuertaPasa(peticion'.ruta)
           THEN Responder(id, RespuestaNoConectado) /\ UNCHANGED <<enCurso, llamadas>>
           ELSE /\ enCurso' = enCurso \cup {r}
                /\ llamadas' = Append(llamadas, Llamada(r, op, "llamada", ""))
                /\ UNCHANGED respuesta
        /\ UNCHANGED <<ahora, nTicks, emitidos, limiteMensajes, envios>>
        /\ UNCHANGED <<varsConexion, varsMensajes, varsCierre>>

GetGrupos(admitido, token) == GetLista(GRUPOS, "getChats", admitido, token)

GetContactos(admitido, token) == GetLista(CONTACTOS, "getContacts", admitido, token)

\* Lines 515-536: the middleware, and the handler up to its await.
GetVerificarNumero(admitido, token, numero) ==
    LET id == nPeticiones + 1
        r == EnVuelo(id, VERIFICAR, "isRegisteredUser", numero \o SUFIJO_CONTACTO,
                     FALSE, SIN_ARCHIVO, 0)
    IN  /\ nPeticiones < MaxPeticiones
        /\ nPeticiones' = id
        /\ peticion' = [turno |-> 1 - peticion.turno, id |-> id, ruta |-> VERIFICAR,
                        admitido |-> admitido, token |-> token, numero |-> numero]
        /\ IF ~admitido
           THEN Responder(id, RespuestaLimite) /\ UNCHANGED <<enCurso, llamadas>>
           ELSE IF ~AutenticacionPasa(token)
           THEN Responder(id, RespuestaNoAutenticado(token))
                /\ UNCHANGED <<enCurso, llamadas>>
           ELSE IF ~PuertaPasa(peticion'.ruta)
           THEN Responder(id, RespuestaNoConectado) /\ UNCHANGED <<enCurso, llamadas>>
           ELSE IF ~NumeroValido(numero)
           THEN Responder(id, RespuestaErrores) /\ UNCHANGED <<enCurso, llamadas>>
           ELSE IF ~validarNumeroTelefono(numero)
           THEN Responder(id, [status |-> 400,
                    cuerpo |-> [exito |-> FALSE,
                                error |-> "Formato de numero invalido"]])
                /\ UNCHANGED <<enCurso, llamadas>>
           ELSE /\ enCurso' = enCurso \cup {r}
                /\ llamadas' = Append(llamadas,
                                      Llamada(r, "isRegisteredUser", "llamada", ""))
                /\ UNCHANGED respuesta
        /\ UNCHANGED <<ahora, nTicks, emitidos, limiteMensajes, envios>>
        /\ UNCHANGED <<varsConexion, varsMensajes, varsCierre>>

\* Lines 443-454, 468-480 and 538-542: the awaited call resolved with valor.
ConsultaTermina(r, valor) ==
    /\ r \in enCurso
    /\ r.ruta \in {GRUPOS, CONTACTOS, VERIFICAR}
    /\ llamadas' = Append(llamadas, Llamada(r, r.pc, "retorno", valor))
    /\ enCurso' = enCurso \ {r}
    /\ Responder(r.id, [status |-> 200,
           cuerpo |-> [exito |-> TRUE, ruta |-> r.ruta, valor |-> valor]])
    /\ UNCHANGED <<ahora, nTicks, emitidos, limiteMensajes, envios, nPeticiones, peticion>>
    /\ UNCHANGED <<varsConexion, varsMensajes, varsCierre>>

\* Lines 455-460, 481-486 and 543-549: the awaited call rejected.
ConsultaFalla(r) ==
    /\ r \in enCurso
    /\ r.ruta \in {GRUPOS, CONTACTOS, VERIFICAR}
    /\ llamadas' = Append(llamadas, Llamada(r, r.pc, "retorno", "error"))
    /\ enCurso' = enCurso \ {r}
    /\ Responder(r.id, [status |-> 500, cuerpo |-> [exito |-> FALSE]])
    /\ UNCHANGED <<ahora, nTicks, emitidos, limiteMensajes, envios, nPeticiones, peticion>>
    /\ UNCHANGED <<varsConexion, varsMensajes, varsCierre>>

---------------------------------------------------------------------------
(* POST /api/auth, lines 297-335, and the clock. *)

\* Line 17: the operator credential hashContrasena is the hash of.
API_PASSWORD == "Learsi20"

\* The contrasena of a request; the empty one fails the validator of line 298.
Contrasenas == {"", "otra", API_PASSWORD}

\* Line 308: bcrypt.compare against the hash of API_PASSWORD.
BcryptCompare(contrasena) == contrasena = API_PASSWORD

\* Lines 297-308: the validator, and the handler up to its await.
PostAuth(admitido, contrasena) ==
    LET id == nPeticiones + 1
    IN  /\ nPeticiones < MaxPeticiones
        /\ nPeticiones' = id
        /\ peticion' = [turno |-> 1 - peticion.turno, id |-> id, ruta |-> AUTH,
                        admitido |-> admitido, contrasena |-> contrasena]
        /\ IF ~admitido
           THEN Responder(id, RespuestaLimite) /\ UNCHANGED enCurso
           ELSE IF ~PuertaPasa(AUTH)
           THEN Responder(id, RespuestaNoConectado) /\ UNCHANGED enCurso
           ELSE IF contrasena = ""
           THEN Responder(id, RespuestaErrores) /\ UNCHANGED enCurso
           ELSE /\ enCurso' = enCurso \cup
                       {[id |-> id, ruta |-> AUTH, pc |-> "bcrypt.compare",
                         contrasena |-> contrasena]}
                /\ UNCHANGED respuesta
        /\ UNCHANGED <<ahora, nTicks, emitidos, limiteMensajes, envios, llamadas>>
        /\ UNCHANGED <<varsConexion, varsMensajes, varsCierre>>

\* Lines 308-326: bcrypt.compare resolved.  jwt.sign stamps the token with the
\* clock of this moment.
AuthTermina(r) ==
    /\ r \in enCurso
    /\ r.ruta = AUTH
    /\ enCurso' = enCurso \ {r}
    /\ IF ~BcryptCompare(r.contrasena)
       THEN /\ Responder(r.id, [status |-> 401,
                   cuerpo |-> [exito |-> FALSE, error |-> "Contrasena incorrecta"]])
            /\ UNCHANGED emitidos
       ELSE /\ Responder(r.id, [status |-> 200,
                   cuerpo |-> [exito |-> TRUE,
                               token |-> generarToken(DatosToken, ahora)]])
            /\ emitidos' = emitidos \cup {generarToken(DatosToken, ahora)}
    /\ UNCHANGED <<ahora, nTicks, limiteMensajes, envios, llamadas, nPeticiones, peticion>>
    /\ UNCHANGED <<varsConexion, varsMensajes, varsCierre>>

\* The clock advances by d seconds.
Tick(d) ==
    /\ nTicks < MaxTicks
    /\ ahora' = ahora + d
    /\ nTicks' = nTicks + 1
    /\ UNCHANGED <<limiteMensajes, envios, enCurso, llamadas, nPeticiones, emitidos,
                   respuesta, peticion>>
    /\ UNCHANGED <<varsConexion, varsMensajes, varsCierre>>

---------------------------------------------------------------------------
(* cerrarAplicacion and the handlers that call it, lines 789-829. *)

\* The signals of lines 815-817 and the faults of lines 820-829.
Senales == {"SIGINT", "SIGTERM", "SIGUSR2", "UNCAUGHT_EXCEPTION",
            "UNHANDLED_REJECTION"}

Vivo == proceso = "vivo"

\* Lines 789-794: servidor.close(callback).  The server stops listening at
\* once; the callback waits for the server's 'close', also when the server
\* was closing or closed already.
CerrarAplicacion(signal) ==
    /\ Vivo
    /\ nSenales < MaxSenales
    /\ nSenales' = nSenales + 1
    /\ servidor' = IF servidor = "escuchando" THEN "cerrando" ELSE servidor
    /\ oyentesCierre' = oyentesCierre + 1
    /\ UNCHANGED <<destroysPendientes, proceso, nDestroy, respuesta, peticion>>
    /\ UNCHANGED <<varsConexion, varsMensajes, varsPeticion>>

\* Lines 794-808: the server's 'close' runs the waiting callbacks.  With
\* clienteListo each one calls cliente.destroy(); without, the first one exits.
ServidorCerrado ==
    /\ Vivo
    /\ servidor # "escuchando"
    /\ oyentesCierre > 0
    /\ servidor' = "cerrado"
    /\ oyentesCierre' = 0
    /\ IF clienteListo
       THEN /\ nDestroy' = nDestroy + oyentesCierre
            /\ destroysPendientes' = destroysPendientes + oyentesCierre
            /\ UNCHANGED proceso
       ELSE /\ proceso' = "exit 0"
            /\ UNCHANGED <<nDestroy, destroysPendientes>>
    /\ UNCHANGED <<nSenales, respuesta, peticion>>
    /\ UNCHANGED <<varsConexion, varsMensajes, varsPeticion>>

\* Lines 798-804: a destroy() promise settles, and its callback exits.
DestroyTermina(cumplida) ==
    /\ Vivo
    /\ destroysPendientes > 0
    /\ destroysPendientes' = destroysPendientes - 1
    /\ proceso' = IF cumplida THEN "exit 0" ELSE "exit 1"
    /\ UNCHANGED <<servidor, oyentesCierre, nDestroy, nSenales, respuesta, peticion>>
    /\ UNCHANGED <<varsConexion, varsMensajes, varsPeticion>>

\* The tokens a client can present at this moment: none, one that is no JWT,
\* one signed with another secret, and every one the gateway has issued.
TokensPresentables ==
    {SIN_TOKEN, TOKEN_MALFORMADO, TokenAjeno(ahora)} \cup emitidos

---------------------------------------------------------------------------
(* Specifications. *)

\* The requests to GET /api/mensajes-recibidos: one refused by the limiter,
\* one per way the token fails, and with a good token one per value of limpiar.
PeticionesMensajes ==
    {[admitido |-> FALSE, token |-> generarToken(DatosToken, 0), limpiar |-> TRUE],
     [admitido |-> TRUE, token |-> SIN_TOKEN, limpiar |-> TRUE],
     [admitido |-> TRUE, token |-> TOKEN_MALFORMADO, limpiar |-> TRUE],
     [admitido |-> TRUE, token |-> generarToken(DatosToken, 0), limpiar |-> TRUE],
     [admitido |-> TRUE, token |-> generarToken(DatosToken, 0), limpiar |-> FALSE]}

\* No request taken yet.
SIN_PETICION == [turno |-> 0, ruta |-> "ninguna"]

\* The clients, by the address express-rate-limit keys them with.
Clientes == {"ipA", "ipB"}

\* A client the store of a limiter holds nothing for.
SIN_VENTANA == [hits |-> 0, reset |-> 0]

SIN_RESPUESTA == [status |-> 0, cuerpo |-> [ninguna |-> TRUE]]

\* Lines 86-89, and nothing in flight.
Init ==
    /\ estadoBot = INICIALIZANDO
    /\ codigoQR = NULL
    /\ clienteListo = FALSE
    /\ mensajesEntrantes = <<>>
    /\ pendientes = {}
    /\ temporizadores = 0
    /\ initEnCurso = 0
    /\ respuesta = SIN_RESPUESTA
    /\ recibidos = <<>>
    /\ anexados = <<>>
    /\ limpiadoEn = -1
    /\ eliminados = {}
    /\ nDesconectado = 0
    /\ nInitReconexion = 0
    /\ ahora = 0
    /\ nTicks = 0
    /\ limiteMensajes = [ip \in Clientes |-> SIN_VENTANA]
    /\ enCurso = {}
    /\ llamadas = <<>>
    /\ nPeticiones = 0
    /\ emitidos = {}
    /\ envios = <<>>
    /\ peticion = SIN_PETICION
    /\ servidor = "escuchando"
    /\ oyentesCierre = 0
    /\ destroysPendientes = 0
    /\ proceso = "vivo"
    /\ nDestroy = 0
    /\ nSenales = 0

\* The inbound buffer: 'message' events, their lookups, and the route that
\* reads the buffer.
NextMensajes ==
    \/ \E de \in Remitentes, cuerpo \in Cuerpos :
         \E autor \in (IF EsIdDeGrupo(de) THEN Autores ELSE {""}) :
           OnMessage(de, cuerpo, autor)
    \/ \E p \in pendientes : GetChatResuelve(p, "Grupo")
    \/ \E p \in pendientes, contacto \in Contactos :
         GetContactByIdResuelve(p, contacto)
    \/ \E p \in pendientes : LookupFalla(p)
    \/ \E pet \in PeticionesMensajes :
         GetMensajesRecibidos(pet.admitido, pet.token, pet.limpiar)

\* The connection: the client's events, the deferred reconnect, and the
\* status route.
NextConexion ==
    \/ \E qr \in CodigosQR : OnQr(qr)
    \/ \E porcentaje \in Porcentajes : OnLoadingScreen(porcentaje)
    \/ OnAuthenticated
    \/ OnAuthFailure
    \/ OnReady
    \/ OnDisconnected
    \/ ReconectarTimeout
    \/ InitializeTermina
    \/ \E admitido \in BOOLEAN : GetEstado(admitido)

SpecMensajes == Init /\ [][NextMensajes]_vars

SpecConexion == Init /\ [][NextConexion]_vars

\* A waiting timeout callback runs once its delay has passed, and a started
\* initialize() settles.
SpecConexionJusta ==
    /\ SpecConexion
    /\ WF_vars(ReconectarTimeout)
    /\ WF_vars(InitializeTermina)

\* A phone number, a group id, and a destino too short for line 354.
NUMERO == <<"5", "5", "5", "0", "1", "0", "0">>
ID_DE_GRUPO == <<"1", "2", "0">> \o SUFIJO_GRUPO
NUMERO_CORTO == <<"5", "5", "5">>

\* A request suspended at an await is resumed, with every outcome of the
\* awaited call.
Reanudar ==
    \/ \E r \in enCurso, estaRegistrado \in BOOLEAN :
         EnviarTrasRegistro(r, estaRegistrado)
    \/ \E r \in enCurso : EnviarTerminado(r)
    \/ \E r \in enCurso : EnviarFalla(r)
    \/ \E r \in enCurso :
         \E valor \in (IF r.ruta = VERIFICAR THEN {"true", "false"} ELSE {"lista"}) :
           ConsultaTermina(r, valor)
    \/ \E r \in enCurso : ConsultaFalla(r)
    \/ \E r \in enCurso : AuthTermina(r)

\* No request is suspended: the clients of NextPuerta and NextToken send
\* their requests one after another.
Libre == enCurso = {}

\* The connection gate: the client's events that move estadoBot through
\* ready and not ready, one buffered message, and every route, called by a
\* client the limiter admits or refuses.
NextPuerta ==
    \/ OnAuthFailure
    \/ OnReady
    \/ nDesconectado = 0 /\ OnDisconnected
    \/ recibidos = <<>> /\ OnMessage("111@c.us", 5, "")
    \/ \E admitido \in BOOLEAN : Libre /\ PostAuth(admitido, API_PASSWORD)
    \/ \E admitido \in BOOLEAN : GetEstado(admitido)
    \/ \E admitido \in BOOLEAN, token \in emitidos :
         GetMensajesRecibidos(admitido, token, FALSE)
    \/ \E admitido \in BOOLEAN, token \in emitidos :
         Libre /\ PostEnviarMensaje("ipA", admitido, token, NUMERO, 5, SIN_ARCHIVO, FALSE)
    \/ \E admitido \in BOOLEAN, token \in emitidos : Libre /\ GetGrupos(admitido, token)
    \/ \E admitido \in BOOLEAN, token \in emitidos : Libre /\ GetContactos(admitido, token)
    \/ \E admitido \in BOOLEAN, token \in emitidos :
         Libre /\ GetVerificarNumero(admitido, token, NUMERO)
    \/ \E r \in enCurso : AuthTermina(r)
    \/ \E r \in enCurso : EnviarTrasRegistro(r, TRUE)
    \/ \E r \in enCurso : EnviarTerminado(r)
    \/ \E r \in enCurso : ConsultaTermina(r, "true")

SpecPuerta == Init /\ [][NextPuerta]_vars

\* The tokens: POST /api/auth, a clock that outlives a token, and the routes
\* behind requiereAutenticacion called with every token a client can present.
NextToken ==
    \/ OnReady
    \/ recibidos = <<>> /\ OnMessage("111@c.us", 5, "")
    \/ nTicks = 0 /\ Tick(EXPIRA_EN)
    \/ \E contrasena \in Contrasenas : Libre /\ PostAuth(TRUE, contrasena)
    \/ \E r \in enCurso : AuthTermina(r)
    \/ \E admitido \in BOOLEAN, token \in TokensPresentables :
         GetMensajesRecibidos(admitido, token, TRUE)
    \/ \E admitido \in BOOLEAN, token \in TokensPresentables :
         Libre /\ PostEnviarMensaje("ipA", admitido, token, NUMERO, 5, SIN_ARCHIVO, FALSE)
    \/ \E token \in TokensPresentables : Libre /\ GetGrupos(TRUE, token)
    \/ \E token \in TokensPresentables : Libre /\ GetContactos(TRUE, token)
    \/ \E token \in TokensPresentables : Libre /\ GetVerificarNumero(TRUE, token, NUMERO)
    \/ \E r \in enCurso : EnviarTrasRegistro(r, TRUE)
    \/ \E r \in enCurso : ConsultaTermina(r, "true")

SpecToken == Init /\ [][NextToken]_vars

\* The clock moves by a second or by a second less than a token lives.
Saltos == {1, EXPIRA_EN - 1}

\* The life of a token: the clock, POST /api/auth, and two routes called with
\* the tokens the gateway has issued.
NextReloj ==
    \/ OnReady
    \/ \E d \in Saltos : Tick(d)
    \/ Libre /\ PostAuth(TRUE, API_PASSWORD)
    \/ \E r \in enCurso : AuthTermina(r)
    \/ \E token \in emitidos : GetMensajesRecibidos(TRUE, token, FALSE)
    \/ \E token \in emitidos : Libre /\ GetGrupos(TRUE, token)
    \/ \E r \in enCurso : ConsultaTermina(r, "lista")

SpecReloj == Init /\ [][NextReloj]_vars

\* The clock moves by a second or by a second less than the window of
\* limitadorMensajes.
SaltosDeVentana == {1, VENTANA_MENSAJES - 1}

\* The send limiter: the clock, sends of two clients, the steps that carry a
\* send through, and requests to another route.
NextLimite ==
    \/ OnReady
    \/ \E d \in SaltosDeVentana : Tick(d)
    \/ Libre /\ PostAuth(TRUE, API_PASSWORD)
    \/ \E r \in enCurso : AuthTermina(r)
    \/ \E ip \in Clientes, admitido \in BOOLEAN, token \in {SIN_TOKEN} \cup emitidos :
         Libre /\ PostEnviarMensaje(ip, admitido, token, NUMERO, 5, SIN_ARCHIVO, FALSE)
    \/ \E r \in enCurso : EnviarTrasRegistro(r, TRUE)
    \/ \E r \in enCurso : EnviarTerminado(r)
    \/ Libre /\ GetGrupos(TRUE, SIN_TOKEN)

SpecLimite == Init /\ [][NextLimite]_vars

\* The bodies of the sends: to a number, each without a file and with a file
\* that is missing, too large or of the largest size allowed; and to a group
\* without a file and with a missing one.
CuerposDeEnvio ==
    {[destino |-> NUMERO, esGrupo |-> FALSE, archivo |-> archivo] :
        archivo \in Archivos}
    \cup {[destino |-> ID_DE_GRUPO, esGrupo |-> TRUE, archivo |-> archivo] :
        archivo \in {SIN_ARCHIVO, ARCHIVO_AUSENTE}}

\* At most one request is suspended.
CasiLibre == Cardinality(enCurso) <= 1

\* Sending: sends of two clients, up to two of them in flight at once, and
\* every outcome of the awaited calls.
NextEnvio ==
    \/ OnReady
    \/ Libre /\ PostAuth(TRUE, API_PASSWORD)
    \/ \E r \in enCurso : AuthTermina(r)
    \/ \E ip \in Clientes, token \in emitidos, c \in CuerposDeEnvio :
         /\ CasiLibre
         /\ PostEnviarMensaje(ip, TRUE, token, c.destino, 5, c.archivo, c.esGrupo)
    \/ \E r \in enCurso, estaRegistrado \in BOOLEAN :
         EnviarTrasRegistro(r, estaRegistrado)
    \/ \E r \in enCurso : EnviarTerminado(r)
    \/ \E r \in enCurso : EnviarFalla(r)

SpecEnvio == Init /\ [][NextEnvio]_vars

\* Sending while the connection changes: sends to a number, one after
\* another, with the client's 'disconnected' and 'auth_failure' events handled
\* at any point, also between a request's awaits.
NextEnvioConEventos ==
    \/ OnReady
    \/ nDesconectado = 0 /\ OnDisconnected
    \/ OnAuthFailure
    \/ Libre /\ PostAuth(TRUE, API_PASSWORD)
    \/ \E r \in enCurso : AuthTermina(r)
    \/ \E ip \in Clientes, token \in emitidos, archivo \in {SIN_ARCHIVO, ARCHIVO_JUSTO} :
         /\ Libre
         /\ PostEnviarMensaje(ip, TRUE, token, NUMERO, 5, archivo, FALSE)
    \/ \E r \in enCurso, estaRegistrado \in BOOLEAN :
         EnviarTrasRegistro(r, estaRegistrado)
    \/ \E r \in enCurso : EnviarTerminado(r)
    \/ \E r \in enCurso : EnviarFalla(r)

SpecEnvioConEventos == Init /\ [][NextEnvioConEventos]_vars

\* The chain of the send route: sends of two clients with every token, with
\* a destino that passes line 354 and one that does not, with the client
\* ready or not, within the send window and past it.
NextCadena ==
    \/ OnReady
    \/ nDesconectado = 0 /\ OnDisconnected
    \/ nTicks = 0 /\ Tick(VENTANA_MENSAJES)
    \/ Libre /\ PostAuth(TRUE, API_PASSWORD)
    \/ \E r \in enCurso : AuthTermina(r)
    \/ \E ip \in Clientes, admitido \in BOOLEAN, token \in TokensPresentables,
          destino \in {NUMERO, NUMERO_CORTO} :
         Libre /\ PostEnviarMensaje(ip, admitido, token, destino, 5, SIN_ARCHIVO, FALSE)
    \/ \E r \in enCurso : EnviarTrasRegistro(r, TRUE)
    \/ \E r \in enCurso : EnviarTerminado(r)

SpecCadena == Init /\ [][NextCadena]_vars

\* Shutdown: signals and faults, the server closing, destroy() settling, and
\* meanwhile the client's events and the deferred reconnect, for as long as
\* the process lives.  The disconnections come before the first signal, so
\* every reconnect that runs after it was scheduled before it.
NextCierre ==
    \/ Vivo /\ OnReady
    \/ Vivo /\ nSenales = 0 /\ OnDisconnected
    \/ Vivo /\ ReconectarTimeout
    \/ Vivo /\ InitializeTermina
    \/ \E signal \in Senales : CerrarAplicacion(signal)
    \/ ServidorCerrado
    \/ \E cumplida \in BOOLEAN : DestroyTermina(cumplida)

SpecCierre == Init /\ [][NextCierre]_vars

\* The whole program.  The parts share few variables, so each is checked
\* under its own specification.
Next ==
    NextMensajes \/ NextConexion \/ NextPuerta \/ NextToken \/ NextReloj
        \/ NextLimite \/ NextEnvio \/ NextEnvioConEventos \/ NextCadena
        \/ NextCierre \/ Reanudar

Spec == Init /\ [][Next]_vars

---------------------------------------------------------------------------
(* Properties of the inbound buffer, checked under SpecMensajes. *)

\* The records pushed since the last clearing GET (all of them if none).
DesdeLimpieza ==
    SubSeq(anexados, (IF limpiadoEn < 0 THEN 0 ELSE limpiadoEn) + 1, Len(anexados))

Minimo(a, b) == IF a < b THEN a ELSE b

\* The last n elements of s, by index.
UltimosDe(s, n) ==
    [i \in 1..Minimo(n, Len(s)) |-> s[Len(s) - Minimo(n, Len(s)) + i]]

\* C1: the buffer holds the records in the order their 'message' events were
\* delivered: of any two records in it, the one delivered first comes first.
\* (Violated: a group message waiting for getChat is overtaken.)
C1_OrdenDeEntrega ==
    \A i \in 1..Len(mensajesEntrantes), j \in 1..Len(mensajesEntrantes) :
        i < j => mensajesEntrantes[i].idMensaje < mensajesEntrantes[j].idMensaje

\* C2: the buffer never holds more than the cap, and it is always the last
\* min(n, cap) of the n records pushed since the last clearing GET, in push
\* order: a push onto a full buffer drops the front record and no other.
C2_BufferAcotadoFIFO ==
    /\ Len(mensajesEntrantes) <= MaxBuffer
    /\ mensajesEntrantes = UltimosDe(DesdeLimpieza, MaxBuffer)

\* C2 witness: more records than the cap were pushed with no clearing GET
\* between them, so the front was evicted, and the buffer is full.
C2_Testigo ==
    /\ Len(DesdeLimpieza) > MaxBuffer
    /\ Len(mensajesEntrantes) = MaxBuffer
    /\ mensajesEntrantes[1] # DesdeLimpieza[1]

\* C3: a GET that removes records from the buffer answers with the records it
\* removes, in order.
\* (Violated: the answer carries only their number.)
C3_LimpiarDevuelveRegistros ==
    [][eliminados' # eliminados =>
         /\ "mensajes" \in DOMAIN respuesta'.cuerpo
         /\ respuesta'.cuerpo.mensajes = mensajesEntrantes]_vars

\* C4: after a clearing GET and until the next push, a reading GET answers
\* with the empty sequence; and a reading GET never answers with a record that
\* a clearing GET removed.
C4_LimpiezaAtomica ==
    /\ limpiadoEn = Len(anexados) => LeerMensajes.mensajes = <<>>
    /\ IdsDe(LeerMensajes.mensajes) \cap eliminados = {}

\* C4 witness: a clearing GET removed records, later pushes refilled the
\* buffer, and a reading GET has answered with what the buffer holds now.
C4_Testigo ==
    /\ eliminados # {}
    /\ mensajesEntrantes # <<>>
    /\ respuesta.status = 200
    /\ "mensajes" \in DOMAIN respuesta.cuerpo
    /\ respuesta.cuerpo.mensajes = mensajesEntrantes

\* The delivery numbers of the handlers still waiting for a lookup.
IdsPendientes == {p.info.idMensaje : p \in pendientes}

\* C5: every 'message' event from a sender other than the broadcast one has
\* its record pushed, exactly once, as soon as its handler is through its
\* lookups (whether they resolved or failed); an event from the broadcast
\* sender never has one.
C5_RegistroPorEvento ==
    /\ \A i \in 1..Len(recibidos) :
         IF recibidos[i] = DIFUSION
         THEN i \notin IdsDe(anexados) \cup IdsPendientes
         ELSE (i \in IdsDe(anexados)) # (i \in IdsPendientes)
    /\ \A i \in 1..Len(anexados) :
         /\ anexados[i].de # DIFUSION
         /\ anexados[i].idMensaje \in 1..Len(recibidos)
         /\ recibidos[anexados[i].idMensaje] = anexados[i].de
         /\ \A j \in 1..Len(anexados) :
              anexados[i].idMensaje = anexados[j].idMensaje => i = j

\* C5 witness: a broadcast event was dropped, and two group messages were
\* pushed with every handler finished: one whose getChat failed, and one whose
\* getChat resolved but whose getContactById failed or found no contact.
C5_Testigo ==
    /\ \E i \in 1..Len(recibidos) : recibidos[i] = DIFUSION
    /\ \E i \in 1..Len(anexados) :
         anexados[i].esGrupo /\ anexados[i].nombreGrupo = ""
    /\ \E i \in 1..Len(anexados) :
         /\ anexados[i].esGrupo /\ anexados[i].nombreGrupo # ""
         /\ anexados[i].autor # "" /\ anexados[i].numeroAutor = ""
    /\ pendientes = {}

---------------------------------------------------------------------------
(* Properties of the connection state, checked under SpecConexion. *)

\* C6: the connected flag is true exactly when the state is conectado.
\* (Violated: only 'ready' and 'disconnected' assign the flag.)
C6_ListoSiiConectado == clienteListo <=> estadoBot = CONECTADO

\* C7: a pairing code is stored only while the state is esperando_qr.
\* (Violated: 'authenticated' and 'loading_screen' leave it stored.)
C7_CodigoSoloEsperandoQR == codigoQR # NULL => estadoBot = ESPERANDO_QR

\* C8: every 'disconnected' event arms one timer, every timer calls
\* initialize() once and arms nothing: the calls made plus the timers waiting
\* equal the events handled, and each event's call is eventually made.
C8_UnaReconexionPorDesconexion ==
    /\ [](/\ nInitReconexion + temporizadores = nDesconectado
          /\ nInitReconexion <= nDesconectado)
    /\ \A k \in 1..(MaxDesconexiones + 1) :
         (nDesconectado >= k) ~> (nInitReconexion >= k)

\* C8 witness: two 'disconnected' events were handled and both timers have
\* run.
C8_Testigo ==
    /\ nDesconectado >= 2
    /\ nInitReconexion = nDesconectado
    /\ temporizadores = 0

\* C9: the run of the reconnect timer that calls initialize() also takes the
\* state from desconectado to inicializando.
\* (Violated: the callback leaves estadoBot as it is.)
C9_ReconexionPasaAInicializando ==
    [][(nInitReconexion' > nInitReconexion /\ estadoBot = DESCONECTADO)
         => estadoBot' = INICIALIZANDO]_vars

\* The edges the state machine lists, on the names of the states.
TransicionListada(a, b) ==
    \/ a = "inicializando" /\ b \in {"cargando", "esperando_qr"}
    \/ a = "cargando" /\ b \in {"autenticado", "error_autenticacion"}
    \/ a = "autenticado" /\ b \in {"conectado", "error_autenticacion"}
    \/ a = "esperando_qr" /\ b \in {"autenticado", "error_autenticacion"}
    \/ a = "conectado" /\ b = "desconectado"
    \/ a = "desconectado" /\ b = "inicializando"

\* C10: whenever the state goes from one named state to another, the pair is
\* a listed edge; an event that matches no edge leaves the state alone.
\* (Violated: every handler assigns its state whatever the current one.)
C10_SoloTransicionesListadas ==
    [][estadoBot'[1] # estadoBot[1] =>
         TransicionListada(estadoBot[1], estadoBot'[1])]_vars

---------------------------------------------------------------------------
(* The connection gate. *)

\* A step in which a route takes a request.
LlegaPeticion == peticion'.turno # peticion.turno

\* TRUE when one of the two limiters refuses the request this step takes.
LimitadorRechaza ==
    \/ ~peticion'.admitido
    \/ /\ peticion'.ruta = ENVIAR
       /\ LimiteExcedido(limiteMensajes'[peticion'.ip])

\* A request with a token that verifies, for a route behind requiereConexion,
\* taken while estadoBot is not 'conectado'.
LlegaSinConexion ==
    /\ LlegaPeticion
    /\ peticion'.ruta \in {ENVIAR, GRUPOS, CONTACTOS, VERIFICAR}
    /\ JwtVerifica(peticion'.token)
    /\ estadoBot # CONECTADO

\* C11 as the specification states it: every such request is answered 503
\* with the current state and calls nothing on the client.
C11_Original ==
    [][LlegaSinConexion =>
         /\ respuesta'.status = 503
         /\ respuesta'.cuerpo.estado = estadoBot
         /\ llamadas' = llamadas]_vars

\* C11: a request with a valid token for enviar-mensaje, grupos, contactos or
\* verificar-numero, taken while estadoBot is not 'conectado', is answered at
\* once: 429 when a limiter refuses it, otherwise 503 carrying estadoBot.
\* Either way it calls nothing on the client and is not left suspended.
C11_SinConexionNoLlama ==
    [][LlegaSinConexion =>
         /\ llamadas' = llamadas
         /\ enCurso' = enCurso
         /\ respuesta'.id = peticion'.id
         /\ IF LimitadorRechaza
            THEN respuesta'.status = 429
            ELSE /\ respuesta'.status = 503
                 /\ respuesta'.cuerpo.estado = estadoBot]_vars

\* A request with a valid token was answered 503 with the state of the moment,
\* and the client has not been called.
C11_Testigo ==
    /\ respuesta.status = 503
    /\ peticion.ruta = ENVIAR
    /\ respuesta.id = peticion.id
    /\ JwtVerifica(peticion.token)
    /\ respuesta.cuerpo.estado = DESCONECTADO
    /\ estadoBot = DESCONECTADO
    /\ llamadas = <<>>

\* The requests suspended before this step that it resumes.
Reanudadas == enCurso \ enCurso'

\* C12: POST /api/auth, GET /api/estado and GET /api/mensajes-recibidos never
\* answer 503, whatever estadoBot and clienteListo are.  Unless the general
\* limiter refuses the request, the status route answers with the state, the
\* buffer route with a valid token answers 200 (with the buffered records when
\* it does not clear), and a request to authenticate with the right password
\* is taken and, when bcrypt.compare has resolved, answered with a token that
\* verifies.
C12_SinPuertaDeConexion ==
    [][/\ (LlegaPeticion /\ peticion'.ruta \in {AUTH, ESTADO, MENSAJES}) =>
            /\ \/ respuesta'.status # 503
               \/ peticion'.ruta = AUTH /\ respuesta' = respuesta
            /\ ~peticion'.admitido => respuesta'.status = 429
            /\ (peticion'.admitido /\ peticion'.ruta = ESTADO) =>
                  respuesta' = [status |-> 200, cuerpo |-> Estado]
            /\ (/\ peticion'.admitido
                /\ peticion'.ruta = MENSAJES
                /\ JwtVerifica(peticion'.token)) =>
                  /\ respuesta'.status = 200
                  /\ ~peticion'.limpiar =>
                        respuesta'.cuerpo.mensajes = mensajesEntrantes
            /\ (/\ peticion'.admitido
                /\ peticion'.ruta = AUTH
                /\ peticion'.contrasena = API_PASSWORD) =>
                  \E r \in enCurso' \ enCurso :
                     r.id = peticion'.id /\ r.ruta = AUTH
       /\ \A r \in Reanudadas :
            (r.ruta = AUTH /\ r.contrasena = API_PASSWORD) =>
               /\ respuesta'.status = 200
               /\ respuesta'.id = r.id
               /\ JwtVerifica(respuesta'.cuerpo.token)]_vars

\* The gateway is disconnected, holds a record, and has just served it to a
\* request whose token it issued.
C12_Testigo ==
    /\ estadoBot = DESCONECTADO
    /\ ~clienteListo
    /\ peticion.ruta = MENSAJES
    /\ peticion.token \in emitidos
    /\ respuesta.status = 200
    /\ Len(mensajesEntrantes) = 1
    /\ respuesta.cuerpo.mensajes = mensajesEntrantes

---------------------------------------------------------------------------
(* Tokens. *)

\* The routes behind requiereAutenticacion (lines 351, 440, 464, 490, 516).
RutasNoPublicas == {ENVIAR, GRUPOS, CONTACTOS, VERIFICAR, MENSAJES}

\* A token that is missing, is no JWT, carries another signature, or has
\* reached its expiry at clock t.
TokenMalo(token, t) ==
    IF token.tipo # "jwt" THEN TRUE
    ELSE token.firma # JWT_SECRET \/ t >= token.exp

\* A request with such a token for a route behind requiereAutenticacion.
LlegaConTokenMalo ==
    /\ LlegaPeticion
    /\ peticion'.ruta \in RutasNoPublicas
    /\ TokenMalo(peticion'.token, ahora)

\* The step leaves the buffer and the connection as they were, calls nothing
\* on the client and suspends nothing.
SinEfecto ==
    /\ mensajesEntrantes' = mensajesEntrantes
    /\ estadoBot' = estadoBot
    /\ clienteListo' = clienteListo
    /\ codigoQR' = codigoQR
    /\ llamadas' = llamadas
    /\ enCurso' = enCurso

\* C13 as the specification states it: every such request is answered 401 and
\* has no effect.
C13_Original ==
    [][LlegaConTokenMalo => (respuesta'.status = 401 /\ SinEfecto)]_vars

\* C13: a request for enviar-mensaje, grupos, contactos, verificar-numero or
\* mensajes-recibidos with a missing, malformed, wrongly signed or expired
\* token has no effect on the buffer or the connection and calls nothing on the
\* client; it is answered 401, unless a limiter refuses it first with 429.
C13_TokenMaloSinEfecto ==
    [][LlegaConTokenMalo =>
         /\ SinEfecto
         /\ respuesta'.status = IF LimitadorRechaza THEN 429 ELSE 401]_vars

\* A clearing request with a token the gateway issued and that has expired was
\* answered 401, and the buffer still holds its record.
C13_Testigo ==
    /\ peticion.ruta = MENSAJES
    /\ peticion.limpiar
    /\ peticion.token \in emitidos
    /\ ahora >= peticion.token.exp
    /\ respuesta.status = 401
    /\ Len(mensajesEntrantes) = 1

\* The permission the specification attaches to a route.
PermisoDe(ruta) == IF ruta = ENVIAR THEN "enviar_mensajes" ELSE "leer_mensajes"

\* The request this step takes gets past requiereAutenticacion: it is neither
\* refused by a limiter nor answered 401.
PasaAutenticacion ==
    /\ LlegaPeticion
    /\ peticion'.ruta \in RutasNoPublicas
    /\ ~LimitadorRechaza
    /\ \/ peticion'.ruta # MENSAJES /\ enCurso' # enCurso
       \/ respuesta'.status # 401

Rechaza401 ==
    /\ peticion'.ruta = MENSAJES \/ enCurso' = enCurso
    /\ respuesta'.status = 401

\* C15: a token POST /api/auth issues at clock t carries exp = t + 24 h; a
\* request that presents it is let past requiereAutenticacion at every clock
\* before t + 24 h and answered 401 from t + 24 h on; and no step takes an
\* issued token back or changes it.
C15_ValidoVeinticuatroHoras ==
    [][/\ emitidos \subseteq emitidos'
       /\ \A token \in emitidos' \ emitidos :
            token.iat = ahora /\ token.exp = ahora + 24 * 60 * 60
       /\ (/\ LlegaPeticion
           /\ peticion'.ruta \in RutasNoPublicas
           /\ peticion'.token \in emitidos
           /\ ~LimitadorRechaza) =>
             (Rechaza401 <=> ahora >= peticion'.token.iat + 24 * 60 * 60)]_vars

\* A token issued after the clock had moved was accepted in the last second
\* of its 24 hours.
C15_Testigo ==
    /\ peticion.ruta = MENSAJES
    /\ peticion.token \in emitidos
    /\ peticion.token.iat > 0
    /\ ahora = peticion.token.iat + 24 * 60 * 60 - 1
    /\ respuesta.status = 200

---------------------------------------------------------------------------
(* The send limiter. *)

\* The window of one client after the requests of h, as the specification
\* describes it: a request begins a window when the client has none or its
\* last one, 60 seconds long, has run out; otherwise it adds to the count.
RECURSIVE VentanaDe(_, _)
VentanaDe(h, ip) ==
    IF h = <<>> THEN [inicio |-> 0, cuenta |-> 0]
    ELSE LET antes == VentanaDe(SubSeq(h, 1, Len(h) - 1), ip)
             e == h[Len(h)]
         IN  IF e.ip # ip THEN antes
             ELSE IF antes.cuenta = 0 \/ e.t >= antes.inicio + 60
             THEN [inicio |-> e.t, cuenta |-> 1]
             ELSE [antes EXCEPT !.cuenta = @ + 1]

\* C16: limitadorMensajes lets a send of a client through exactly when it is
\* among the first MaxMensajesPorVentana (10 in the source) that client has
\* sent since its window began, a window lasting 60 seconds from the request
\* that began it; so it refuses the further ones of the window and lets
\* through again once the window has run out.  The sends of other clients do
\* not count.
C16_LimitePorCliente ==
    \A i \in 1..Len(envios) :
       envios[i].pasa <=>
          VentanaDe(SubSeq(envios, 1, i), envios[i].ip).cuenta <= MaxMensajesPorVentana

\* A client was let through, refused within the window, and let through
\* again when the window had run out.
C16_Testigo ==
    \E i, j, k \in 1..Len(envios) :
       /\ i < j /\ j < k
       /\ envios[i].ip = "ipA" /\ envios[i].pasa
       /\ envios[j].ip = "ipA" /\ ~envios[j].pasa
       /\ envios[j].t < envios[i].t + 60
       /\ envios[k].ip = "ipA" /\ envios[k].pasa
       /\ envios[k].t >= envios[i].t + 60

---------------------------------------------------------------------------
(* Sending. *)

\* The entries of the log a send request wrote.
EsLlamada(e, op) == e.ruta = ENVIAR /\ e.op = op /\ e.fase = "llamada"
EsRetorno(e, op, valor) ==
    e.ruta = ENVIAR /\ e.op = op /\ e.fase = "retorno" /\ e.valor = valor

\* Every call of sendMessage for a number comes after isRegisteredUser
\* answered true to the same request for the same chatId; a request it
\* answered false to never calls sendMessage; a send to a group never calls
\* isRegisteredUser.
RegistroAntesDeEnviar ==
    /\ \A i \in 1..Len(llamadas) :
          (EsLlamada(llamadas[i], "sendMessage") /\ ~llamadas[i].esGrupo) =>
             \E j \in 1..(i - 1) :
                /\ EsRetorno(llamadas[j], "isRegisteredUser", "true")
                /\ llamadas[j].id = llamadas[i].id
                /\ llamadas[j].chatId = llamadas[i].chatId
    /\ \A i, j \in 1..Len(llamadas) :
          EsRetorno(llamadas[j], "isRegisteredUser", "false") =>
             ~(EsLlamada(llamadas[i], "sendMessage")
               /\ llamadas[i].id = llamadas[j].id)
    /\ \A i \in 1..Len(llamadas) :
          (llamadas[i].ruta = ENVIAR /\ llamadas[i].esGrupo) =>
             llamadas[i].op # "isRegisteredUser"

\* C17: a send to a number calls sendMessage only after isRegisteredUser
\* answered true for the same chatId in the same request; when it answers
\* false the request ends there, answered 400 'not registered', and never
\* calls sendMessage; a send to a group never calls isRegisteredUser.
C17_RegistroAntesDeEnviar ==
    [][/\ RegistroAntesDeEnviar'
       /\ \A r \in Reanudadas :
            (/\ r.ruta = ENVIAR
             /\ Len(llamadas') = Len(llamadas) + 1
             /\ EsRetorno(llamadas'[Len(llamadas')], "isRegisteredUser", "false")) =>
               /\ respuesta'.id = r.id
               /\ respuesta'.status = 400
               /\ respuesta'.cuerpo.error = "El numero no esta registrado en WhatsApp"
               /\ \A q \in enCurso' : q.id # r.id]_vars

\* One request was answered true and called sendMessage, another was answered
\* false and did not.
C17_Testigo ==
    \E i, j, k \in 1..Len(llamadas) :
       /\ i < j
       /\ EsRetorno(llamadas[i], "isRegisteredUser", "true")
       /\ EsLlamada(llamadas[j], "sendMessage")
       /\ llamadas[j].id = llamadas[i].id
       /\ llamadas[j].chatId = NUMERO \o SUFIJO_CONTACTO
       /\ EsRetorno(llamadas[k], "isRegisteredUser", "false")

\* The entries of the log that are calls to the client.
EsDeRed(e) == e.op \in {"isRegisteredUser", "sendMessage"}

\* The file check of a request failed: existsSync answered false or statSync
\* a size over the limit.
ArchivoRechazado(e) ==
    \/ EsRetorno(e, "existsSync", "false")
    \/ EsRetorno(e, "statSync", "grande")

\* C18: a request whose file is missing or too large has called nothing on
\* the client, whether it is for a number or for a group.
C18_ArchivoAntesDeLaRed ==
    \A i, j \in 1..Len(llamadas) :
       (ArchivoRechazado(llamadas[j]) /\ llamadas[i].id = llamadas[j].id) =>
          ~EsDeRed(llamadas[i])

---------------------------------------------------------------------------
(* Shutdown. *)

\* C19: shutdown goes in order.  destroy() is called only once the server has
\* stopped listening; the callbacks of the server's close call destroy() if
\* and only if clienteListo holds; the process exits only with the server
\* closed, and never while a destroy() it started has not settled.
C19_OrdenDeCierre ==
    [][/\ nDestroy' > nDestroy => servidor # "escuchando"
       /\ (oyentesCierre > 0 /\ oyentesCierre' = 0) =>
             (nDestroy' > nDestroy <=> clienteListo)
       /\ (Vivo /\ ~Vivo') =>
             /\ servidor' = "cerrado"
             /\ destroysPendientes' = 0]_vars

\* C20: once cerrarAplicacion has been called, no callback of a reconnect
\* timer set before it calls cliente.initialize().
C20_ReconexionAbandonada ==
    [][nInitReconexion' > nInitReconexion => nSenales = 0]_vars

---------------------------------------------------------------------------
(* The status route and the pairing code. *)

\* C21: whatever events the client has delivered, a request for the status
\* that the general limiter lets through is answered 200 with the current
\* estadoBot, and the code it reports is non-null exactly when the state it
\* reports is esperando_qr; the request carries no token.
C21_CodigoSiiEsperandoQR ==
    [][(LlegaPeticion /\ peticion'.ruta = ESTADO /\ peticion'.admitido) =>
          /\ respuesta'.status = 200
          /\ respuesta'.cuerpo.estado = estadoBot
          /\ respuesta'.cuerpo.listo = clienteListo
          /\ respuesta'.cuerpo.codigoQR # NULL <=>
                respuesta'.cuerpo.estado = ESPERANDO_QR
          /\ respuesta'.cuerpo.codigoQR # NULL =>
                respuesta'.cuerpo.codigoQR = codigoQR]_vars

\* A code is still stored after a later 'authenticated' or 'loading_screen'
\* event, and the status just served reports that state and no code.
C21_Testigo ==
    /\ codigoQR # NULL
    /\ estadoBot # ESPERANDO_QR
    /\ peticion.ruta = ESTADO
    /\ peticion.admitido
    /\ respuesta.status = 200
    /\ respuesta.cuerpo.estado = estadoBot
    /\ respuesta.cuerpo.codigoQR = NULL

---------------------------------------------------------------------------
(* Sending and the connection state. *)

\* The entries this step appends to the log of calls.
LlamadasNuevas == {llamadas'[i] : i \in (Len(llamadas) + 1)..Len(llamadas')}

\* C22: when the gateway calls sendMessage the connection is ready
\* (clienteListo and estadoBot 'conectado'), also for a request that was
\* suspended at isRegisteredUser while a 'disconnected' or 'auth_failure'
\* event was handled.
C22_ListoAlEnviar ==
    [][\A e \in LlamadasNuevas :
          EsLlamada(e, "sendMessage") => ConexionPasa]_vars

---------------------------------------------------------------------------
(* The order of the checks of the send route. *)

\* C23: a send request that reaches limitadorMensajes is counted in the
\* window of its client, whatever becomes of it afterwards, and is answered
\* by the first check that fails, in the order limitadorMensajes (429),
\* requiereAutenticacion (401), requiereConexion (503), the validators of
\* lines 354-357 (400); when none fails the handler takes it.  A request the
\* general limiter refuses does not reach limitadorMensajes and is not
\* counted.
C23_OrdenDeComprobaciones ==
    [][(LlegaPeticion /\ peticion'.ruta = ENVIAR) =>
          LET p == peticion'
              antes == limiteMensajes[p.ip]
              cuenta == IF antes.hits = 0 \/ ahora >= antes.reset
                        THEN 1 ELSE antes.hits + 1
          IN  IF ~p.admitido
              THEN /\ limiteMensajes' = limiteMensajes
                   /\ respuesta'.status = 429
                   /\ respuesta'.id = p.id
              ELSE /\ limiteMensajes'[p.ip].hits = cuenta
                   /\ \A ip \in Clientes \ {p.ip} :
                         limiteMensajes'[ip] = limiteMensajes[ip]
                   /\ IF cuenta > MaxMensajesPorVentana
                      THEN /\ respuesta'.status = 429
                           /\ respuesta'.id = p.id
                           /\ respuesta'.cuerpo = RespuestaLimiteMensajes.cuerpo
                           /\ enCurso' = enCurso
                      ELSE IF TokenMalo(p.token, ahora)
                      THEN /\ respuesta'.status = 401
                           /\ respuesta'.id = p.id
                           /\ enCurso' = enCurso
                      ELSE IF ~(clienteListo /\ estadoBot = CONECTADO)
                      THEN /\ respuesta'.status = 503
                           /\ respuesta'.id = p.id
                           /\ enCurso' = enCurso
                      ELSE IF Len(p.destino) < 7 \/ Len(p.destino) > 20
                      THEN /\ respuesta' = [status |-> 400, id |-> p.id,
                                            cuerpo |-> RespuestaErrores.cuerpo]
                           /\ enCurso' = enCurso
                      ELSE \E r \in enCurso' \ enCurso : r.id = p.id]_vars

\* No token was ever issued and the client was never ready.  The first send
\* of a client was refused and counted; its second, which has no token and a
\* destino too short, is refused by limitadorMensajes.
C23_Testigo ==
    /\ emitidos = {}
    /\ estadoBot = INICIALIZANDO
    /\ nPeticiones = 2
    /\ peticion.ruta = ENVIAR
    /\ peticion.admitido
    /\ peticion.token = SIN_TOKEN
    /\ peticion.destino = NUMERO_CORTO
    /\ limiteMensajes[peticion.ip].hits = 2
    /\ respuesta.id = 2
    /\ respuesta.status = 429
    /\ respuesta.cuerpo = RespuestaLimiteMensajes.cuerpo

---------------------------------------------------------------------------
(* Repeated shutdown triggers. *)

\* C24: whatever signals and faults call cerrarAplicacion, and however often,
\* cliente.destroy() is called at most once.
C24_DestroyUnaVez == nDestroy <= 1

====
